---- MODULE Spec2Model ----
(***************************************************************************)
(* Terminal animator: the animation timeline compiler of src/src/build.ts. *)
(*                                                                         *)
(* Units.  Every time value is an integer number of tenths of a second     *)
(* (0.5 s = 5), every percentage an integer number of ten-thousandths of   *)
(* a percent (toFixed(4): 100% = 1000000).  Arithmetic is exact; the       *)
(* binary floating point error of the JavaScript numbers is not modelled.  *)
(***************************************************************************)
EXTENDS Integers, Sequences, FiniteSets, TLC

VARIABLES
  config,    \* the caller's configuration object (steps are mutable objects)
  original,  \* the configuration as it was loaded
  before,    \* the configuration as it was when the last call began
  call,      \* the last call made on the configuration
  doc,       \* the document the last compile returned
  totalTime, \* renderGif's capture window (totalTime, line 404)
  outcome,   \* how the last call ended
  pc,        \* main's position
  layoutIn,  \* a step and the charWidth the Layout Resolver is given
  layoutOut, \* the positions it resolved for that step
  environment, \* DENO_ENV as main reads it
  configData,  \* the configuration file as parsed
  loaded,      \* what loadConfig returned for it
  files,       \* the output files main has written
  mainPc,      \* main's position in its output stages
  stateFile,  \* the state file of incrementalUpdate, missing or its content
  returned,  \* what the runs of incrementalUpdate returned, in order
  clock, \* the time new Date() reads
  retries,  \* the retries argument of a safeOctokit call
  currentRetry,  \* its local currentRetry
  requests,  \* the requests it has issued and how each ended
  waited,  \* the waits it has made, in ms
  settled,  \* what the call returned or threw
  octokitPc, \* where the call is: request, wait, returned, thrown
  starCount,  \* how many repositories the viewer has starred
  starFile,  \* the starPowerPicks part of the persisted state
  scan,  \* the getStarPowerPicks call in progress, or how the last one ended
  starDay,  \* the day new Date() reads
  starRuns, \* how many runs have been started
  timings,  \* the timing objects, defaultStep.timing first
  stepObjects,  \* the step objects, those of the initial configuration and then one per StepBuilder
  composerSteps,  \* Composer.config.steps, a list of references to step objects
  composerLog,  \* the constructor's steps, the setter calls and the .done accesses so far
  composerPc, \* building, or compiled once buildSVG has taken toJSON()
  spectrum,  \* the semanticCommitSpectrum part of the state handed from run to run
  spectrumClock,  \* the time new Date() reads
  spectrumCall  \* the last call of getSemanticCommitSpectrum, its input and how many commits it fetched

\* The state of the compiler calls.
compilerVars == <<config, original, before, call, doc, totalTime, outcome, pc>>

\* The state of the Layout Resolver.
layoutVars == <<layoutIn, layoutOut>>

\* The state of main's loading and output selection.
mainVars == <<environment, configData, loaded, files, mainPc>>

\* The state of the incremental state store.
storeVars == <<stateFile, returned, clock>>

\* The state of one safeOctokit call.
octokitVars ==
  <<retries, currentRetry, requests, waited, settled, octokitPc>>

\* The state of getStarPowerPicks across runs.
starsVars ==
  <<starCount, starFile, scan, starDay, starRuns>>

\* The state of a Composer and of the objects it refers to.
composerVars ==
  <<timings, stepObjects, composerSteps, composerLog, composerPc>>

\* The state of getSemanticCommitSpectrum across runs.
spectrumVars ==
  <<spectrum, spectrumClock, spectrumCall>>

vars ==
  <<compilerVars, layoutVars, mainVars, storeVars, octokitVars, starsVars,
    composerVars, spectrumVars>>

\* What an action of one program leaves alone: the state of the others.
OthersUnchanged(program) ==
  /\ IF program = "compiler" THEN TRUE ELSE UNCHANGED compilerVars
  /\ IF program = "layout" THEN TRUE ELSE UNCHANGED layoutVars
  /\ IF program = "main" THEN TRUE ELSE UNCHANGED mainVars
  /\ IF program = "store" THEN TRUE ELSE UNCHANGED storeVars
  /\ IF program = "octokit" THEN TRUE ELSE UNCHANGED octokitVars
  /\ IF program = "stars" THEN TRUE ELSE UNCHANGED starsVars
  /\ IF program = "composer" THEN TRUE ELSE UNCHANGED composerVars
  /\ IF program = "spectrum" THEN TRUE ELSE UNCHANGED spectrumVars

----------------------------------------------------------------------------
\* src/timings.ts

STEP_TRANSITION == 5

LOOP_EXTRA_TIME == 0

NON_LOOP_EXTRA_TIME == 5

LAST_STEP_EXTRA_TIME == 10

\* The literal 0.2 s fade of renderLines and renderCommand.
FADE_DURATION == 2

\* 100%, in the unit of toFixed(4).
HUNDRED == 1000000

\* The 0.01% a character's hidden keyframe precedes its reveal by.
CHAR_LEAD == 100

\* Milliseconds in one time unit (cycleMs = totalDuration * 1000).
MS_PER_UNIT == 100

----------------------------------------------------------------------------
\* Bounds of the model.

MaxSteps == 2

----------------------------------------------------------------------------
\* Arithmetic helpers.

\* Math.max over the running total (line 76).
MathMax(a, b) == IF a >= b THEN a ELSE b

\* Number.parseFloat(x.toFixed(4)) of x = a + n/d percent, a integral in the
\* unit of toFixed(4), n >= 0, d > 0: round to nearest, a tie away from zero.
RoundAdd(a, n, d) ==
  LET q == n \div d
      r == n % d
  IN  IF a + q >= 0
        THEN a + q + (IF 2 * r >= d THEN 1 ELSE 0)
        ELSE a + q + (IF 2 * r > d THEN 1 ELSE 0)

\* floor(r * 10^6 / d) for 0 <= r < d, two decimal digits at a time so that no
\* intermediate value leaves the 32 bit range; the remainder is kept for rounding.
Stage(qr, d) ==
  [q |-> qr.q * 100 + (qr.r * 100) \div d, r |-> (qr.r * 100) % d]

Scaled(r, d) == Stage(Stage(Stage([q |-> 0, r |-> r], d), d), d)

\* Number.parseFloat(((value / totalDuration) * 100).toFixed(4))
ToPctAbs(value, totalDuration) ==
  LET s == Scaled(value % totalDuration, totalDuration)
  IN  (value \div totalDuration) * HUNDRED + s.q
        + (IF 2 * s.r >= totalDuration THEN 1 ELSE 0)

\* A zero totalDuration divides by zero: the quotient is NaN or an infinity,
\* which toFixed and parseFloat hand through.
ToPct(value, totalDuration) ==
  IF totalDuration = 0
    THEN (IF value = 0 THEN "NaN" ELSE IF value > 0 THEN "Infinity" ELSE "-Infinity")
    ELSE IF value >= 0 THEN ToPctAbs(value, totalDuration)
                       ELSE 0 - ToPctAbs(0 - value, totalDuration)

\* Number.parseFloat((pct + (0.2 / totalDuration) * 100).toFixed(4))
AddFade(pct, totalDuration) ==
  IF totalDuration = 0
    THEN (IF pct \in {"NaN", "-Infinity"} THEN "NaN" ELSE "Infinity")
    ELSE RoundAdd(pct, FADE_DURATION * HUNDRED, totalDuration)

\* Number.parseFloat((charStartPct - 0.01).toFixed(4))
BeforeReveal(charStartPct, totalDuration) ==
  IF totalDuration = 0 THEN charStartPct ELSE charStartPct - CHAR_LEAD

----------------------------------------------------------------------------
\* Steps.  `index` counts from 0 as in the source; At reads steps[index].

At(steps, index) == steps[index + 1]

TypingDuration(step) == Len(step.command) * step.timing.perChar

\* start + command.length * perChar + hold of one step.
StepEnd(step) == step.timing.start + TypingDuration(step) + step.timing.hold

----------------------------------------------------------------------------
\* computeTotalAnimationTime (lines 63-84).

RECURSIVE TotalAfter(_, _)
\* totalDuration after the iterations 0 .. n-1 of the forEach.
TotalAfter(cfg, n) ==
  IF n = 0 THEN 0
  ELSE LET index == n - 1
           step == At(cfg.steps, index)
           isLastStep == index = Len(cfg.steps) - 1
           extraPause == IF isLastStep /\ cfg.loop THEN LAST_STEP_EXTRA_TIME ELSE 0
           stepEndTime == StepEnd(step) + extraPause
           m == MathMax(TotalAfter(cfg, n - 1), stepEndTime)
       IN  IF index < Len(cfg.steps) - 1 THEN m + STEP_TRANSITION ELSE m

\* The trailing constants taken the other way round.
computeTotalAnimationTimeSwapped(cfg) ==
  TotalAfter(cfg, Len(cfg.steps))
    + (IF cfg.loop THEN NON_LOOP_EXTRA_TIME ELSE LOOP_EXTRA_TIME)

computeTotalAnimationTime(cfg) ==
  TotalAfter(cfg, Len(cfg.steps))
    + (IF cfg.loop THEN LOOP_EXTRA_TIME ELSE NON_LOOP_EXTRA_TIME)

----------------------------------------------------------------------------
\* The overlap adjustment of buildSVG's step pass (lines 317-324).

prevEndTimeNoGap(steps, index) == StepEnd(At(steps, index - 1))

prevEndTime(steps, index) == StepEnd(At(steps, index - 1)) + STEP_TRANSITION

\* No step is ever moved.
AdjustStartNever(steps, index) == steps

AdjustStartAlways(steps, index) ==
  IF index > 0
    THEN [steps EXCEPT ![index + 1].timing.start = prevEndTime(steps, index)]
    ELSE steps

\* The steps array once iteration `index` of the forEach has adjusted its step.
AdjustStart(steps, index) ==
  IF index > 0 /\ At(steps, index).timing.start < prevEndTime(steps, index)
    THEN [steps EXCEPT ![index + 1].timing.start = prevEndTime(steps, index)]
    ELSE steps

----------------------------------------------------------------------------
\* Keyframes and rules (lines 13-26).

Name(kind, step, char) == [kind |-> kind, step |-> step, char |-> char]

NoName == Name("none", 0, 0)

Frame(pct, opacity) == [pct |-> pct, opacity |-> opacity]

\* buildKeyframes(name, keyframes)
buildKeyframes(name, frames) == [name |-> name, frames |-> frames]

\* buildRule(selector, declarations) with an `animation:` declaration.
AnimationRule(selector, keyframeName, ms, easing, iteration) ==
  [selector |-> selector, animation |-> keyframeName, ms |-> ms,
   easing |-> easing, iteration |-> iteration]

\* buildRule(selector, 'opacity: 1;')
StaticRule(selector) ==
  [selector |-> selector, animation |-> NoName, ms |-> 0,
   easing |-> "none", iteration |-> "none"]

\* Every animation plays once.
IterationCountOnce(shouldLoop) == "1"

IterationCount(shouldLoop) == IF shouldLoop THEN "infinite" ELSE "1"

Piece(keyframes, rules, content) ==
  [keyframes |-> keyframes, rules |-> rules, content |-> content]

Nothing == Piece(<<>>, <<>>, <<>>)

Join(a, b) ==
  Piece(a.keyframes \o b.keyframes, a.rules \o b.rules, a.content \o b.content)

----------------------------------------------------------------------------
\* renderLines (lines 137-200).  cfg is the configuration as the closure
\* sees it when the step is rendered.

\* The fade-in of a line group starts where the previous step ended, without
\* the transition.
animateStartAtPrevEnd(cfg, index) ==
  IF index = 0 THEN 0 ELSE StepEnd(At(cfg.steps, index - 1))

\* const animateStart (lines 146-150)
animateStart(cfg, index) ==
  IF index = 0 THEN 0
  ELSE StepEnd(At(cfg.steps, index - 1)) + STEP_TRANSITION

renderLines(cfg, totalDuration, shouldLoop, lines, fadeOutAt, index, isLastStep) ==
  IF Len(lines) = 0 THEN Nothing
  ELSE
    LET fadeInStart == ToPct(animateStart(cfg, index), totalDuration)
        fadeInEnd == AddFade(fadeInStart, totalDuration)
        fadeOutStart == ToPct(fadeOutAt, totalDuration)
        fadeOutEnd == AddFade(fadeOutStart, totalDuration)
        keyframeName == Name("fade", index, 0)
        iteration ==
          IF isLastStep /\ cfg.loop THEN "infinite" ELSE IterationCount(shouldLoop)
    IN  Piece(
          << buildKeyframes(keyframeName,
               << Frame(0, 0), Frame(fadeInStart, 0), Frame(fadeInEnd, 1),
                  Frame(fadeOutStart, 1), Frame(fadeOutEnd, 0), Frame(HUNDRED, 0) >>) >>,
          << AnimationRule(Name("line", index, 0), keyframeName,
               totalDuration * MS_PER_UNIT, "linear", iteration) >>,
          << [class |-> Name("line", index, 0), texts |-> Len(lines)] >>)

\* renderPrompt (lines 202-232).
renderPrompt(stepIndex) ==
  Piece(<<>>,
        << StaticRule(Name("prompt", stepIndex, 0)) >>,
        << [class |-> Name("prompt", stepIndex, 0), texts |-> 1] >>)

\* The keyframes and the rule of character i (lines 275-304).
CharPiece(totalDuration, shouldLoop, timing, stepIndex, i) ==
  LET charStartTime == timing.start + i * timing.perChar
      charStartPct == ToPct(charStartTime, totalDuration)
      typeKeyframeName == Name("type", stepIndex, i)
  IN  Piece(
        << buildKeyframes(typeKeyframeName,
             << Frame(0, 0), Frame(BeforeReveal(charStartPct, totalDuration), 0),
                Frame(charStartPct, 1), Frame(HUNDRED, 1) >>) >>,
        << AnimationRule(Name("cmd", stepIndex, i), typeKeyframeName,
             totalDuration * MS_PER_UNIT, "steps", IterationCount(shouldLoop)) >>,
        <<>>)

RECURSIVE CharPieces(_, _, _, _, _)
\* The first n iterations of the character loop.
CharPieces(totalDuration, shouldLoop, timing, stepIndex, n) ==
  IF n = 0 THEN Nothing
  ELSE Join(CharPieces(totalDuration, shouldLoop, timing, stepIndex, n - 1),
            CharPiece(totalDuration, shouldLoop, timing, stepIndex, n - 1))

\* The command group fades out when the typing is over, without the hold.
fadeOutStartTimeNoHold(cfg, command, timing, isLastStep) ==
  timing.start + Len(command) * timing.perChar
    + (IF isLastStep /\ cfg.loop THEN LAST_STEP_EXTRA_TIME ELSE 0)

\* const fadeOutStartTime (lines 250-251)
fadeOutStartTime(cfg, command, timing, isLastStep) ==
  timing.start + Len(command) * timing.perChar + timing.hold
    + (IF isLastStep /\ cfg.loop THEN LAST_STEP_EXTRA_TIME ELSE 0)

\* renderCommand after its early return (lines 243-310): the group's fade-out
\* and the characters.
CommandGroup(cfg, totalDuration, shouldLoop, command, timing, stepIndex, isLastStep) ==
  LET fadeOutStartPct ==
        ToPct(fadeOutStartTime(cfg, command, timing, isLastStep), totalDuration)
      fadeOutEndPct == AddFade(fadeOutStartPct, totalDuration)
      fadeOutKeyframeName == Name("fade-cmd", stepIndex, 0)
      group ==
        Piece(
          << buildKeyframes(fadeOutKeyframeName,
               << Frame(0, 1), Frame(fadeOutStartPct, 1),
                  Frame(fadeOutEndPct, 0), Frame(HUNDRED, 0) >>) >>,
          << AnimationRule(Name("cmd-group", stepIndex, 0), fadeOutKeyframeName,
               totalDuration * MS_PER_UNIT, "linear", IterationCount(shouldLoop)) >>,
          << [class |-> Name("cmd-group", stepIndex, 0), texts |-> Len(command)] >>)
  IN  Join(group,
           CharPieces(totalDuration, shouldLoop, timing, stepIndex, Len(command)))

\* A renderCommand that has no early return for an empty command.
renderCommandAlways(cfg, totalDuration, shouldLoop, command, timing, stepIndex, isLastStep) ==
  CommandGroup(cfg, totalDuration, shouldLoop, command, timing, stepIndex, isLastStep)

\* renderCommand (lines 234-311); line 241: if (!command) return ''
renderCommand(cfg, totalDuration, shouldLoop, command, timing, stepIndex, isLastStep) ==
  IF Len(command) = 0 THEN Nothing
  ELSE CommandGroup(cfg, totalDuration, shouldLoop, command, timing, stepIndex,
                    isLastStep)

----------------------------------------------------------------------------
\* buildSVG (lines 115-400).

\* What one iteration of config.steps.forEach emits (lines 326-348); cfg holds
\* the steps as adjusted so far.
RenderStep(cfg, totalDuration, shouldLoop, index) ==
  LET step == At(cfg.steps, index)
      isLastStep == index = Len(cfg.steps) - 1
      fadeOutAt ==
        IF isLastStep /\ cfg.loop
          THEN StepEnd(step) + LAST_STEP_EXTRA_TIME
          ELSE StepEnd(step)
      lines == renderLines(cfg, totalDuration, shouldLoop, step.terminalLines,
                           fadeOutAt, index, isLastStep)
  IN  IF ~isLastStep
        THEN Join(lines, Join(renderPrompt(index),
               renderCommand(cfg, totalDuration, shouldLoop, step.command,
                             step.timing, index, FALSE)))
        ELSE IF cfg.loop
          THEN Join(lines, Join(renderPrompt(index),
                 renderCommand(cfg, totalDuration, shouldLoop, step.command,
                               step.timing, index, TRUE)))
          ELSE lines

RECURSIVE StepPass(_, _, _, _)
\* The steps and the collected output after iterations 0 .. n-1 of the forEach.
StepPass(cfg, totalDuration, shouldLoop, n) ==
  IF n = 0 THEN [steps |-> cfg.steps, out |-> Nothing]
  ELSE LET prev == StepPass(cfg, totalDuration, shouldLoop, n - 1)
           steps == AdjustStart(prev.steps, n - 1)
       IN  [steps |-> steps,
            out |-> Join(prev.out,
                      RenderStep([cfg EXCEPT !.steps = steps], totalDuration,
                                 shouldLoop, n - 1))]

\* The returned document and the steps array the call leaves behind.
buildSVG(cfg, forceLoop) ==
  LET totalDuration == computeTotalAnimationTime(cfg)
      shouldLoop == forceLoop \/ cfg.loop
      pass == StepPass(cfg, totalDuration, shouldLoop, Len(cfg.steps))
  IN  [steps |-> pass.steps,
       doc |-> [duration |-> totalDuration,
                cycleMs |-> totalDuration * MS_PER_UNIT,
                keyframes |-> pass.out.keyframes,
                rules |-> pass.out.rules,
                content |-> pass.out.content,
                embedded |-> cfg.embed]]

----------------------------------------------------------------------------
\* renderGif (lines 402-432): the capture window and the temporary build.

\* const shouldCreateTemp = !config.loop || !config.embed
shouldCreateTemp(cfg) == ~cfg.loop \/ ~cfg.embed

\* { ...config, loop: true, embed: true }: a new object sharing the steps array.
TempConfig(cfg) == [cfg EXCEPT !.loop = TRUE, !.embed = TRUE]

\* { ...config, embed: true } (line 561)
EmbedConfig(cfg) == [cfg EXCEPT !.embed = TRUE]

----------------------------------------------------------------------------
\* The Layout Resolver: the horizontal positions of buildSVG (lines 133-135,
\* 326-328).  An optional value is a sequence: empty when the field is
\* undefined, the value alone when it is given.

Undefined == <<>>

Given(value) == <<value>>

\* a || b on an optional number: 0 counts as missing.
CoalesceFalsy(optional, default) ==
  IF optional = Undefined \/ optional[1] = 0 THEN default ELSE optional[1]

\* a ?? b
Coalesce(optional, default) ==
  IF optional = Undefined THEN default ELSE optional[1]

\* step.position?.promptX, step.position?.commandX
PositionField(step, field) ==
  IF step.position = Undefined THEN Undefined ELSE step.position[1][field]

\* The template literal of calcPromptWidth; an empty path is falsy.
PromptText(prompt) ==
  prompt.user \o "@" \o prompt.host
    \o (IF prompt.path # Undefined /\ prompt.path[1] # ""
          THEN ":" \o prompt.path[1] ELSE "")
    \o prompt.symbol

calcPromptWidth(charWidth, prompt) == Len(PromptText(prompt)) * charWidth

\* Lines 326-328 of the forEach body.
ResolvePositions(charWidth, step) ==
  LET promptX == Coalesce(PositionField(step, "promptX"), 20)
      promptWidth == calcPromptWidth(charWidth, step.shellPrompt)
      commandX ==
        Coalesce(PositionField(step, "commandX"), promptX + promptWidth + 5)
  IN  [promptX |-> promptX, promptWidth |-> promptWidth, commandX |-> commandX]

----------------------------------------------------------------------------
\* Configurations the loader can hand to main.

Step(start, command, perChar, hold, lines) ==
  [terminalLines |-> lines, command |-> command,
   timing |-> [start |-> start, perChar |-> perChar, hold |-> hold]]

StepPool(starts, commands, perChars, holds, lineSets) ==
  { Step(s, c, p, h, l) :
      s \in starts, c \in commands, p \in perChars, h \in holds, l \in lineSets }

Configs(pool, lengths) ==
  { [steps |-> s, loop |-> l, embed |-> e] :
      s \in UNION { [1..k -> pool] : k \in lengths }, l \in BOOLEAN, e \in BOOLEAN }

Starts == {0, 20, 60}

Commands == {"", "ls"}

Holds == {1, 51}

\* Steps typed at 0.2 s per character under one line of output, and the edge
\* steps: no output line, and a command that appears all at once (perChar 0).
ValidPool ==
  StepPool(Starts, Commands, {2}, Holds, {<<"out">>})
    \cup StepPool({0}, {"ls"}, {0}, {1}, {<<>>})

----------------------------------------------------------------------------
\* The state machine: main (lines 510-567) and the calls it makes on the
\* loaded configuration.  Which outputs are asked for (outputTypes) decides
\* which of the calls are made; every combination is a path of pc.

NoDoc ==
  [duration |-> 0, cycleMs |-> 0, keyframes |-> <<>>, rules |-> <<>>,
   content |-> <<>>, embedded |-> FALSE]

\* A call: who made it, the loop flag of the object it was given, forceLoop,
\* and whether it compiled (ran buildSVG).
Call(op, loop, forceLoop, compiled) ==
  [op |-> op, loop |-> loop, forceLoop |-> forceLoop, compiled |-> compiled]

\* The step of defaults.ts, with the default charWidth.
NoLayoutIn ==
  [charWidth |-> 11,
   step |-> [shellPrompt |->
               [user |-> "user", host |-> "host", symbol |-> ":~$",
                path |-> Undefined],
             position |-> Undefined,
             timing |-> [start |-> 0, perChar |-> 2, hold |-> 50]]]

NoLayout == [resolved |-> FALSE, promptX |-> 0, promptWidth |-> 0, commandX |-> 0]

\* The parsed file of a run that has not started: nothing but steps in it.
NoConfigData == [loop |-> Undefined, embed |-> Undefined, outputTypes |-> Undefined]

NoLoaded == [loop |-> FALSE, embed |-> FALSE, outputTypes |-> {}]

\* A specification runs one program; the others stay as they are here.
IdleCompiler ==
  /\ config = [steps |-> <<>>, loop |-> FALSE, embed |-> FALSE]
  /\ original = config
  /\ before = config
  /\ call = Call("none", FALSE, FALSE, FALSE)
  /\ doc = NoDoc
  /\ totalTime = 0
  /\ outcome = "none"
  /\ pc = "idle"

IdleLayout ==
  /\ layoutIn = NoLayoutIn
  /\ layoutOut = NoLayout

IdleMain ==
  /\ environment = "production"
  /\ configData = NoConfigData
  /\ loaded = NoLoaded
  /\ files = {}
  /\ mainPc = "idle"

IdleStore ==
  /\ stateFile = <<>>
  /\ returned = <<>>
  /\ clock = 0

IdleOctokit ==
  /\ retries = 0
  /\ currentRetry = 0
  /\ requests = <<>>
  /\ waited = <<>>
  /\ settled = [kind |-> "none", request |-> 0]
  /\ octokitPc = "idle"

IdleStars ==
  /\ starCount = 0
  /\ starFile = [allStarredReposList |-> <<>>, lastProcessedStarCursor |-> <<>>,
                 totalStarredRepos |-> 0, lastFullScanDate |-> <<>>]
  /\ scan = [pc |-> "idle", starredRepos |-> <<>>, cursor |-> <<>>]
  /\ starDay = 0
  /\ starRuns = 0

IdleComposer ==
  /\ timings = <<>>
  /\ stepObjects = <<>>
  /\ composerSteps = <<>>
  /\ composerLog = [initial |-> <<>>, set |-> <<>>, done |-> <<>>]
  /\ composerPc = "idle"

IdleSpectrum ==
  /\ spectrum = [lastFetchTime |-> 0, verbSpectrum |-> <<>>, totalCommits |-> 0]
  /\ spectrumClock = 0
  /\ spectrumCall = [kind |-> "idle"]

OthersIdle(program) ==
  /\ IF program = "compiler" THEN TRUE ELSE IdleCompiler
  /\ IF program = "layout" THEN TRUE ELSE IdleLayout
  /\ IF program = "main" THEN TRUE ELSE IdleMain
  /\ IF program = "store" THEN TRUE ELSE IdleStore
  /\ IF program = "octokit" THEN TRUE ELSE IdleOctokit
  /\ IF program = "stars" THEN TRUE ELSE IdleStars
  /\ IF program = "composer" THEN TRUE ELSE IdleComposer
  /\ IF program = "spectrum" THEN TRUE ELSE IdleSpectrum

InitWith(configs) ==
  /\ OthersIdle("compiler")
  /\ config \in configs
  /\ original = config
  /\ before = config
  /\ call = Call("none", FALSE, FALSE, FALSE)
  /\ doc = NoDoc
  /\ totalTime = 0
  /\ outcome = "none"
  /\ pc = "loaded"

Init == InitWith(Configs(ValidPool, 0..MaxSteps))

\* main, line 529: if (!config?.steps?.length) throw new Error(...)
Reject ==
  /\ pc = "loaded"
  /\ Len(config.steps) = 0
  /\ outcome' = "Error"
  /\ before' = config
  /\ call' = Call("main", config.loop, FALSE, FALSE)
  /\ pc' = "failed"
  /\ UNCHANGED <<config, original, doc, totalTime>>
  /\ OthersUnchanged("compiler")

\* A compile of `cfg`, an object whose steps array is the caller's.
Compile(op, cfg, forceLoop) ==
  LET r == buildSVG(cfg, forceLoop)
  IN  /\ config' = [config EXCEPT !.steps = r.steps]
      /\ doc' = r.doc
      /\ before' = config
      /\ call' = Call(op, cfg.loop, forceLoop, TRUE)
      /\ outcome' = "ok"

\* main, line 546: buildSVG(config, baseName)
MainBuild ==
  /\ pc = "loaded"
  /\ Len(config.steps) > 0
  /\ Compile("main-build", config, FALSE)
  /\ pc' = "built"
  /\ UNCHANGED <<original, totalTime>>
  /\ OthersUnchanged("compiler")

\* main, line 561: buildSVG({ ...config, embed: true }, baseName, true), made
\* when a GIF is asked for and no HTML; an SVG may have been built before.
MainGifHtml ==
  /\ pc \in {"loaded", "built"}
  /\ Len(config.steps) > 0
  /\ Compile("main-gif-html", EmbedConfig(config), TRUE)
  /\ pc' = "gif-html"
  /\ UNCHANGED <<original, totalTime>>
  /\ OthersUnchanged("compiler")

\* renderGif with the temporary forced-loop build (lines 404, 416-426).
RenderGifTemp ==
  /\ pc \in {"built", "gif-html"}
  /\ shouldCreateTemp(config)
  /\ totalTime' = computeTotalAnimationTime(config)
  /\ Compile("render-gif", TempConfig(config), TRUE)
  /\ pc' = "done"
  /\ UNCHANGED original
  /\ OthersUnchanged("compiler")

\* renderGif on the document main wrote (shouldCreateTemp is false).
RenderGifDirect ==
  /\ pc \in {"built", "gif-html"}
  /\ ~shouldCreateTemp(config)
  /\ totalTime' = computeTotalAnimationTime(config)
  /\ before' = config
  /\ call' = Call("render-gif", config.loop, FALSE, FALSE)
  /\ outcome' = "ok"
  /\ pc' = "done"
  /\ UNCHANGED <<config, original, doc>>
  /\ OthersUnchanged("compiler")

Next ==
  \/ Reject
  \/ MainBuild
  \/ MainGifHtml
  \/ RenderGifTemp
  \/ RenderGifDirect

Spec == Init /\ [][Next]_vars

\* Configurations whose hold is so long that one typed character is less than
\* 0.0001% of the cycle.
DegeneratePool == StepPool({0, 20}, {"ls"}, {1, 2}, {1, 4000000}, {<<"out">>})

SpecDegenerate ==
  InitWith(Configs(DegeneratePool, 0..MaxSteps)) /\ [][Next]_vars

\* Configurations the loader accepts although a timing value is negative.
InvalidPool == StepPool({-10, 20}, {"ls"}, {-1, 2}, {-10, 51}, {<<"out">>})

SpecInvalid ==
  InitWith(Configs(InvalidPool, 0..MaxSteps)) /\ [][Next]_vars

----------------------------------------------------------------------------
\* The Layout Resolver on one step: the forEach body moves the step's start
\* (lines 317-324) and then resolves its positions (lines 326-328).

\* Prompts with and without a path, steps with and without a position and
\* with each of its fields given (0 included) or missing.
LayoutPrompts ==
  { [user |-> u, host |-> "host", symbol |-> y, path |-> p] :
      u \in {"user", "z"}, y \in {":~$", "$"},
      p \in {Undefined, Given(""), Given("src")} }

LayoutPositions ==
  {Undefined} \cup
    { Given([promptX |-> x, commandX |-> c]) :
        x \in {Undefined, Given(0), Given(40)},
        c \in {Undefined, Given(0), Given(150)} }

LayoutTimings == { [start |-> s, perChar |-> 2, hold |-> 1] : s \in {0, 20} }

LayoutInputs ==
  { [charWidth |-> w,
     step |-> [shellPrompt |-> p, position |-> q, timing |-> t]] :
      w \in {8, 11}, p \in LayoutPrompts, q \in LayoutPositions,
      t \in LayoutTimings }

InitLayout ==
  /\ OthersIdle("layout")
  /\ layoutIn \in LayoutInputs
  /\ layoutOut = NoLayout

\* if (step.timing.start < prevEndTime) step.timing.start = prevEndTime
LayoutPush ==
  /\ ~layoutOut.resolved
  /\ \E prevEnd \in {26, 80} :
       /\ layoutIn.step.timing.start < prevEnd
       /\ layoutIn' = [layoutIn EXCEPT !.step.timing.start = prevEnd]
  /\ UNCHANGED layoutOut
  /\ OthersUnchanged("layout")

\* const promptX, promptWidth, commandX (lines 326-328)
ResolveLayout ==
  /\ ~layoutOut.resolved
  /\ LET r == ResolvePositions(layoutIn.charWidth, layoutIn.step)
     IN  layoutOut' = [resolved |-> TRUE, promptX |-> r.promptX,
                       promptWidth |-> r.promptWidth, commandX |-> r.commandX]
  /\ UNCHANGED layoutIn
  /\ OthersUnchanged("layout")

NextLayout ==
  \/ LayoutPush
  \/ ResolveLayout

SpecLayout == InitLayout /\ [][NextLayout]_vars

----------------------------------------------------------------------------
\* main's loading and output selection: loadConfig and applyDefaults
\* (src/src/defaults.ts), then the files main writes (build.ts 539-567).

\* defaultConfig, the fields main's selection reads.
defaultConfig ==
  [loop |-> FALSE, embed |-> FALSE, outputTypes |-> {"html", "svg", "gif"}]

\* applyDefaults: field ?? defaultConfig.field
applyDefaults(data) ==
  [loop |-> Coalesce(data.loop, defaultConfig.loop),
   embed |-> Coalesce(data.embed, defaultConfig.embed),
   outputTypes |-> Coalesce(data.outputTypes, defaultConfig.outputTypes)]

shouldGenerateHtml(cfg) == "html" \in cfg.outputTypes

shouldGenerateSvg(cfg) == "svg" \in cfg.outputTypes

shouldGenerateGif(cfg) == "gif" \in cfg.outputTypes

\* const forceGenerateSvg = shouldGenerateHtml && (!shouldEmbed || shouldEmbed)
forceGenerateSvg(cfg) == shouldGenerateHtml(cfg) /\ (~cfg.embed \/ cfg.embed)

\* Every parsed file: each field missing or given, every set of output types.
ConfigDatas ==
  { [loop |-> l, embed |-> e, outputTypes |-> t] :
      l \in {Undefined, Given(TRUE), Given(FALSE)},
      e \in {Undefined, Given(TRUE), Given(FALSE)},
      t \in {Undefined} \cup { Given(o) : o \in SUBSET {"html", "svg", "gif"} } }

InitMain ==
  /\ OthersIdle("main")
  /\ environment \in {"production", "test"}
  /\ configData \in ConfigDatas
  /\ loaded = NoLoaded
  /\ files = {}
  /\ mainPc = "start"

\* const config = await loadConfig(configPath)
LoadConfig ==
  /\ mainPc = "start"
  /\ loaded' = applyDefaults(configData)
  /\ mainPc' = "loaded"
  /\ UNCHANGED <<environment, configData, files>>
  /\ OthersUnchanged("main")

\* Lines 545-557: the HTML and SVG files.
WriteHtmlSvg ==
  /\ mainPc = "loaded"
  /\ files' =
       files
         \cup (IF shouldGenerateHtml(loaded) THEN {"html"} ELSE {})
         \cup (IF shouldGenerateSvg(loaded) \/ forceGenerateSvg(loaded)
                THEN {"svg"} ELSE {})
  /\ mainPc' = "built"
  /\ UNCHANGED <<environment, configData, loaded>>
  /\ OthersUnchanged("main")

\* Lines 559-567: the HTML page the GIF is captured from, and the GIF.
WriteGif ==
  /\ mainPc = "built"
  /\ files' =
       IF shouldGenerateGif(loaded) /\ environment = "production"
         THEN files
                \cup (IF ~shouldGenerateHtml(loaded) /\ ~forceGenerateSvg(loaded)
                       THEN {"html"} ELSE {})
                \cup {"gif"}
         ELSE files
  /\ mainPc' = "done"
  /\ UNCHANGED <<environment, configData, loaded>>
  /\ OthersUnchanged("main")

NextMain ==
  \/ LoadConfig
  \/ WriteHtmlSvg
  \/ WriteGif

SpecMain == InitMain /\ [][NextMain]_vars

----------------------------------------------------------------------------
\* The incremental state store (src/unnamed/part_007): runs of
\* incrementalUpdate, one after another, against one state file.

MaxRuns == 3

\* Math.floor(Math.random() * 100)
Values == {0, 50, 99}

\* The state of a first run: new Date(0), counter 0, no history.
DefaultState == [lastUpdated |-> 0, counter |-> 0, history |-> <<>>]

\* loadState: the parsed content of the file, null when there is no file.
\* Its catch branch needs a failing read or parse, which a file that
\* saveState wrote as JSON.stringify of a state does not give.
loadState(file) == file

\* saveState: the state with lastUpdated set to now replaces the file.
saveState(state, now) == Given([state EXCEPT !.lastUpdated = now])

\* An update that starts the history again from the new entry.
UpdatedStateFresh(currentState, newEntry) ==
  [currentState EXCEPT !.counter = @ + 1, !.history = <<newEntry>>]

\* const updatedState (lines 57-61)
UpdatedState(currentState, newEntry) ==
  [currentState EXCEPT !.counter = @ + 1, !.history = Append(@, newEntry)]

InitStore ==
  /\ OthersIdle("store")
  /\ stateFile = Undefined
  /\ returned = <<>>
  /\ clock = 1

\* One run of incrementalUpdate (lines 36-67).
IncrementalUpdate ==
  /\ Len(returned) < MaxRuns
  /\ \E value \in Values :
       LET currentState == Coalesce(loadState(stateFile), DefaultState)
           newEntry == [date |-> clock, value |-> value]
           updatedState == UpdatedState(currentState, newEntry)
       IN  /\ stateFile' = saveState(updatedState, clock)
           /\ returned' = Append(returned, updatedState)
  /\ UNCHANGED clock
  /\ OthersUnchanged("store")

\* Time passes between two runs.
Tick ==
  /\ clock <= Len(returned)
  /\ clock' = clock + 1
  /\ UNCHANGED <<stateFile, returned>>
  /\ OthersUnchanged("store")

NextStore ==
  \/ IncrementalUpdate
  \/ Tick

SpecStore == InitStore /\ [][NextStore]_vars

----------------------------------------------------------------------------
\* safeOctokit (src/unnamed/part_005, lines 158-216): one call, from its
\* first request to its return or throw.

MaxRetries == 3

\* Math.random() * 1000, in ms
Jitters == {0, 999}

\* What a failed request throws.
ErrorKinds == {"rate limit", "other"}

RECURSIVE Power(_, _)
Power(base, n) == IF n = 0 THEN 1 ELSE base * Power(base, n - 1)

\* const waitTime (lines 190-193), initialBackoff 2000 ms; 1.5 ** k is
\* 3^k / 2^k, and 2000 * 3^k / 2^k is a whole number of ms for k <= 4.
WaitTime(isRateLimit, retry, jitter) ==
  IF isRateLimit
    THEN MathMax(2000 * Power(2, retry - 1) + jitter, 60000)
    ELSE (2000 * Power(3, retry - 1)) \div Power(2, retry - 1) + jitter

\* A guard that lets one more request through.
RetriesExhaustedLate(current, allowed) == current > allowed

\* if (currentRetry >= retries) throw error
RetriesExhausted(current, allowed) == current >= allowed

NoOutcome == [kind |-> "none", request |-> 0]

InitOctokit ==
  /\ OthersIdle("octokit")
  /\ retries \in 0..MaxRetries
  /\ currentRetry = 0
  /\ requests = <<>>
  /\ waited = <<>>
  /\ settled = NoOutcome
  /\ octokitPc = "request"

\* The request resolves: return result
RequestSucceeds ==
  /\ octokitPc = "request"
  /\ requests' = Append(requests, "ok")
  /\ settled' = [kind |-> "ok", request |-> Len(requests) + 1]
  /\ octokitPc' = "returned"
  /\ UNCHANGED <<retries, currentRetry, waited>>
  /\ OthersUnchanged("octokit")

\* The request rejects: the catch block up to the throw or the wait.
RequestFails ==
  /\ octokitPc = "request"
  /\ \E error \in ErrorKinds :
       /\ requests' = Append(requests, error)
       /\ IF RetriesExhausted(currentRetry, retries)
            THEN /\ settled' = [kind |-> error, request |-> Len(requests) + 1]
                 /\ octokitPc' = "thrown"
                 /\ UNCHANGED <<currentRetry, waited>>
            ELSE /\ currentRetry' = currentRetry + 1
                 /\ \E jitter \in Jitters :
                      waited' =
                        Append(waited,
                               WaitTime(error = "rate limit", currentRetry + 1, jitter))
                 /\ octokitPc' = "wait"
                 /\ UNCHANGED settled
  /\ UNCHANGED retries
  /\ OthersUnchanged("octokit")

\* await new Promise((resolve) => setTimeout(resolve, waitTime))
WaitOver ==
  /\ octokitPc = "wait"
  /\ octokitPc' = "request"
  /\ UNCHANGED <<retries, currentRetry, requests, waited, settled>>
  /\ OthersUnchanged("octokit")

NextOctokit ==
  \/ RequestSucceeds
  \/ RequestFails
  \/ WaitOver

\* Every request settles and every timer fires.
SpecOctokit == InitOctokit /\ [][NextOctokit]_vars /\ WF_vars(NextOctokit)

----------------------------------------------------------------------------
\* getStarPowerPicks (src/unnamed/part_005, lines 944-1074) over several
\* runs of the program, each a new process that reads the persisted state.
\* A repository is its place 1 .. starCount in the API's list; a cursor is
\* the place of the last repository of a page.

MaxRepos == 3

MaxStarRuns == 3

\* starredRepositories(first: 25, ...), scaled down.
PageSize == 2

\* The starPowerPicks part of the initial state (lines 90-96).
NoStars ==
  [allStarredReposList |-> <<>>, lastProcessedStarCursor |-> Undefined,
   totalStarredRepos |-> 0, lastFullScanDate |-> Undefined]

NoScan == [pc |-> "idle", starredRepos |-> <<>>, cursor |-> Undefined]

\* The nodes of the page after `cursor` (null: from the start).
PageAfter(cursor, count) ==
  LET from == Coalesce(cursor, 0)
      to == IF from + PageSize < count THEN from + PageSize ELSE count
  IN  [k \in 1..(to - from) |-> from + k]

\* pageInfo.hasNextPage of that page
HasNextPage(cursor, count) == Coalesce(cursor, 0) + PageSize < count

\* pageInfo.endCursor of that page
EndCursor(cursor, count) ==
  Given(Coalesce(cursor, 0) + Len(PageAfter(cursor, count)))

\* Lines 981-986: the scan continues the stored list from the stored cursor.
ScanStart(state) ==
  [pc |-> "scanning", starredRepos |-> state.allStarredReposList,
   cursor |-> state.lastProcessedStarCursor]

\* Lines 954-966: a complete scan less than a day old, with a list.
RecentScan(state, day) ==
  /\ state.lastFullScanDate # Undefined
  /\ state.lastFullScanDate[1] > day - 1
  /\ Len(state.allStarredReposList) > 0

InitStars ==
  /\ OthersIdle("stars")
  /\ starCount \in 0..MaxRepos
  /\ starFile = NoStars
  /\ scan = NoScan
  /\ starDay = 0
  /\ starRuns = 0

\* A run begins (lines 945-986): the stored result is used, or a scan starts.
StartRun ==
  /\ scan.pc \notin {"scanning", "last-page"}
  /\ starRuns < MaxStarRuns
  /\ starRuns' = starRuns + 1
  /\ scan' = IF RecentScan(starFile, starDay)
               THEN [NoScan EXCEPT !.pc = "stored"]
               ELSE ScanStart(starFile)
  /\ UNCHANGED <<starCount, starFile, starDay>>
  /\ OthersUnchanged("stars")

\* One iteration of the while loop (lines 988-1046) whose request succeeds:
\* the page is appended and the list and the cursor are saved.
FetchPage ==
  /\ scan.pc = "scanning"
  /\ LET starredRepos == scan.starredRepos \o PageAfter(scan.cursor, starCount)
         hasNextPage == HasNextPage(scan.cursor, starCount)
         cursor == EndCursor(scan.cursor, starCount)
     IN  /\ scan' = [pc |-> IF hasNextPage THEN "scanning" ELSE "last-page",
                     starredRepos |-> starredRepos, cursor |-> cursor]
         /\ starFile' = [starFile EXCEPT
                           !.allStarredReposList = starredRepos,
                           !.lastProcessedStarCursor = cursor]
  /\ UNCHANGED <<starCount, starDay, starRuns>>
  /\ OthersUnchanged("stars")

\* After the last page (lines 1047-1073) the scan is marked complete, and
\* the caller saves the state the function returns (lines 1521-1529).
CompleteScan ==
  /\ scan.pc = "last-page"
  /\ scan' = [NoScan EXCEPT !.pc = "complete"]
  /\ starFile' = [allStarredReposList |-> scan.starredRepos,
                  lastProcessedStarCursor |-> Undefined,
                  totalStarredRepos |-> Len(scan.starredRepos),
                  lastFullScanDate |-> Given(starDay)]
  /\ UNCHANGED <<starCount, starDay, starRuns>>
  /\ OthersUnchanged("stars")

\* safeOctokit throws: the run ends, the state stays as last saved.
PageFails ==
  /\ scan.pc = "scanning"
  /\ scan' = [NoScan EXCEPT !.pc = "interrupted"]
  /\ UNCHANGED <<starCount, starFile, starDay, starRuns>>
  /\ OthersUnchanged("stars")

\* More than a day passes between two runs.
DayPasses ==
  /\ scan.pc \notin {"idle", "scanning", "last-page"}
  /\ starDay < starRuns
  /\ starDay' = starDay + 1
  /\ UNCHANGED <<starCount, starFile, scan, starRuns>>
  /\ OthersUnchanged("stars")

NextStars ==
  \/ StartRun
  \/ FetchPage
  \/ CompleteScan
  \/ PageFails
  \/ DayPasses

SpecStars == InitStars /\ [][NextStars]_vars

----------------------------------------------------------------------------
\* The Composer and its StepBuilders (src/composer.ts), with objects held by
\* reference: a step object refers to its timing object by its place in
\* `timings`, and config.steps refers to step objects by their place in
\* `stepObjects`.

MaxBuilders == 2

MaxDone == 3

\* defaultStep.timing (src/src/defaults.ts, lines 35-40) is timings[1].
DefaultTimingRef == 1

defaultStepTiming == [start |-> 0, perChar |-> 2, hold |-> 50]

defaultStepCommand == ""

\* The object literals handed to .timing().
TimingArguments ==
  { [start |-> 0, perChar |-> 2, hold |-> 10],
    [start |-> 100, perChar |-> 2, hold |-> 10] }

\* The steps handed to the constructor in initialConfig: none, or one.
InitialStepSets == {<<>>, <<[command |-> "ls", timing |-> 2]>>}

\* The field initialiser of StepBuilder.step (lines 41-46).
NewStepObject == [command |-> defaultStepCommand, timing |-> DefaultTimingRef]

\* A step as buildSVG reads it through the references.
StepValue(object, heap) == [command |-> object.command, timing |-> heap[object.timing]]

StepValues(list, objects, heap) ==
  [k \in 1..Len(list) |-> StepValue(objects[list[k]], heap)]

\* config.steps.unshift(step)
addStepFront(steps, step) == <<step>> \o steps

\* Composer.addStep (lines 152-158): config.steps.push(step)
addStep(steps, step) == Append(steps, step)

RECURSIVE OverlapPass(_, _, _, _)
\* The timing objects after the iterations 0 .. n-1 of buildSVG's forEach
\* have adjusted the start times (src/src/build.ts, lines 317-324).
OverlapPass(list, objects, heap, n) ==
  IF n = 0 THEN heap
  ELSE LET prev == OverlapPass(list, objects, heap, n - 1)
           steps == StepValues(list, objects, prev)
           index == n - 1
       IN  IF index > 0 /\ At(steps, index).timing.start < prevEndTime(steps, index)
             THEN [prev EXCEPT ![objects[list[n]].timing].start =
                                  prevEndTime(steps, index)]
             ELSE prev

NoCalls == [command |-> Undefined, timing |-> Undefined]

\* new Composer(initialConfig) (lines 129-143)
InitComposer ==
  /\ OthersIdle("composer")
  /\ \E initial \in InitialStepSets :
       /\ stepObjects = initial
       /\ timings = <<defaultStepTiming>> \o
                      [k \in 1..Len(initial) |-> [start |-> 0, perChar |-> 2, hold |-> 10]]
       /\ composerSteps = [k \in 1..Len(initial) |-> k]
       /\ composerLog = [initial |-> [k \in 1..Len(initial) |-> k],
                         set |-> [k \in 1..Len(initial) |-> NoCalls],
                         done |-> <<>>]
  /\ composerPc = "building"

Builders == (Len(composerLog.initial) + 1)..Len(stepObjects)

\* get step (lines 165-167): a new StepBuilder
NewStepBuilder ==
  /\ composerPc = "building"
  /\ Len(stepObjects) < Len(composerLog.initial) + MaxBuilders
  /\ stepObjects' = Append(stepObjects, NewStepObject)
  /\ composerLog' = [composerLog EXCEPT !.set = Append(@, NoCalls)]
  /\ UNCHANGED <<timings, composerSteps, composerPc>>
  /\ OthersUnchanged("composer")

\* StepBuilder.command (lines 87-90)
SetCommand ==
  /\ composerPc = "building"
  /\ \E b \in Builders, cmd \in Commands :
       /\ stepObjects' = [stepObjects EXCEPT ![b].command = cmd]
       /\ composerLog' = [composerLog EXCEPT !.set[b].command = Given(cmd)]
  /\ UNCHANGED <<timings, composerSteps, composerPc>>
  /\ OthersUnchanged("composer")

\* StepBuilder.timing (lines 76-79) with a new object literal, once a builder
SetTiming ==
  /\ composerPc = "building"
  /\ \E b \in Builders, timing \in TimingArguments :
       /\ composerLog.set[b].timing = Undefined
       /\ timings' = Append(timings, timing)
       /\ stepObjects' = [stepObjects EXCEPT ![b].timing = Len(timings) + 1]
       /\ composerLog' = [composerLog EXCEPT !.set[b].timing = Given(timing)]
  /\ UNCHANGED <<composerSteps, composerPc>>
  /\ OthersUnchanged("composer")

\* get done (lines 110-115)
Done ==
  /\ composerPc = "building"
  /\ Len(composerLog.done) < MaxDone
  /\ \E b \in Builders :
       /\ composerSteps' = addStep(composerSteps, b)
       /\ composerLog' = [composerLog EXCEPT !.done = Append(@, b)]
  /\ UNCHANGED <<timings, stepObjects, composerPc>>
  /\ OthersUnchanged("composer")

\* buildSVG(composer.toJSON(), ...): toJSON hands out config itself (lines
\* 174-176), and the forEach adjusts the start times in its steps.
BuildComposed ==
  /\ composerPc = "building"
  /\ Len(composerSteps) > 0
  /\ timings' = OverlapPass(composerSteps, stepObjects, timings, Len(composerSteps))
  /\ composerPc' = "compiled"
  /\ UNCHANGED <<stepObjects, composerSteps, composerLog>>
  /\ OthersUnchanged("composer")

NextComposer ==
  \/ NewStepBuilder
  \/ SetCommand
  \/ SetTiming
  \/ Done
  \/ BuildComposed

SpecComposer == InitComposer /\ [][NextComposer]_vars



----------------------------------------------------------------------------
\* getSemanticCommitSpectrum (src/unnamed/part_005, lines 237-370) over
\* several runs.  Time is counted in ticks, TicksPerDay of them to a calendar
\* day; the default state's "one year ago" is OneYear ticks back.

TicksPerDay == 2

OneYear == 6

MaxTicks == 2

MaxCommits == 2

DateString(time) == time \div TicksPerDay

Categories ==
  {"creator", "maintainer", "bugfixer", "cleaner", "refactorer", "experimenter",
   "other"}

\* The table of lines 325-332.
CategoryVerbs(category) ==
  CASE category = "creator" -> {"add", "create", "implement", "init"}
    [] category = "maintainer" -> {"update", "bump", "upgrade", "improve", "enhance"}
    [] category = "bugfixer" -> {"fix", "correct", "resolve", "patch"}
    [] category = "cleaner" -> {"remove", "delete", "clean", "prune"}
    [] category = "refactorer" -> {"refactor", "restructure", "redesign"}
    [] category = "experimenter" -> {"test", "try", "experiment"}
    [] OTHER -> {}

\* The first line of a commit message: its first word and what follows it.
CommitMessages ==
  { [first |-> "Fix", after |-> ":"],
    [first |-> "add", after |-> " "],
    [first |-> "refactor", after |-> "("],
    [first |-> "chore", after |-> ":"],
    [first |-> "wip", after |-> ""] }

ToLowerCase(word) == IF word = "Fix" THEN "fix" ELSE word

\* Lines 316-322: /^(\w+)[:(]|^(\w+)\s/ on the first line, lower-cased;
\* Undefined where it does not match (and is filtered out).
FirstVerb(msg) ==
  IF msg.after \in {":", "(", " "} THEN Given(ToLowerCase(msg.first)) ELSE Undefined

\* Lines 338-351: the category a verb is counted in.
CategoryOf(verb) ==
  IF \E category \in Categories : verb \in CategoryVerbs(category)
    THEN CHOOSE category \in Categories : verb \in CategoryVerbs(category)
    ELSE "other"

\* The counting starts from zero.
ExistingCountsNone(state) == [category \in Categories |-> 0]

\* Line 335: { ...state.semanticCommitSpectrum.verbSpectrum }
ExistingCounts(state) == state.verbSpectrum

RECURSIVE CountVerbs(_, _, _)
\* categoryCounts after the first n commit messages (lines 338-351).
CountVerbs(counts, messages, n) ==
  IF n = 0 THEN counts
  ELSE LET prev == CountVerbs(counts, messages, n - 1)
           verb == FirstVerb(messages[n])
       IN  IF verb = Undefined THEN prev
           ELSE [prev EXCEPT ![CategoryOf(verb[1])] = @ + 1]

\* Lines 354-359: the semanticCommitSpectrum of updatedState.
UpdatedSpectrum(state, messages, now) ==
  [lastFetchTime |-> now,
   verbSpectrum |-> CountVerbs(ExistingCounts(state), messages, Len(messages)),
   totalCommits |-> state.totalCommits + Len(messages)]

\* Lines 246-249: data is there and the last fetch was today.
FetchedToday(state, now) ==
  /\ state.totalCommits > 0
  /\ DateString(state.lastFetchTime) = DateString(now)

CommitBatches == UNION { [1..n -> CommitMessages] : n \in 0..MaxCommits }

\* getDefaultState (lines 54-70), read at time OneYear.
InitSpectrum ==
  /\ OthersIdle("spectrum")
  /\ spectrumClock = OneYear
  /\ spectrum = [lastFetchTime |-> 0,
                 verbSpectrum |-> [category \in Categories |-> 0],
                 totalCommits |-> 0]
  /\ spectrumCall = [kind |-> "none"]

\* One call whose request succeeds: the stored result, or a fetch of the
\* commits since lastFetchTime counted on top of the state.
SpectrumRun ==
  /\ \E messages \in CommitBatches :
       IF FetchedToday(spectrum, spectrumClock)
         THEN /\ spectrumCall' = [kind |-> "stored"]
              /\ UNCHANGED spectrum
         ELSE /\ spectrum' = UpdatedSpectrum(spectrum, messages, spectrumClock)
              /\ spectrumCall' = [kind |-> "fetched", input |-> spectrum,
                                  fetched |-> Len(messages)]
  /\ UNCHANGED spectrumClock
  /\ OthersUnchanged("spectrum")

\* safeOctokit throws (lines 261-301): no updated state is returned.
SpectrumFails ==
  /\ ~FetchedToday(spectrum, spectrumClock)
  /\ spectrumCall' = [kind |-> "failed"]
  /\ UNCHANGED <<spectrum, spectrumClock>>
  /\ OthersUnchanged("spectrum")

SpectrumTick ==
  /\ spectrumClock < OneYear + MaxTicks
  /\ spectrumClock' = spectrumClock + 1
  /\ UNCHANGED <<spectrum, spectrumCall>>
  /\ OthersUnchanged("spectrum")

NextSpectrum ==
  \/ SpectrumRun
  \/ SpectrumFails
  \/ SpectrumTick

SpecSpectrum == InitSpectrum /\ [][NextSpectrum]_vars

----------------------------------------------------------------------------
\* Vocabulary of the properties.

\* The last call ran buildSVG: config holds the resolved steps, before the
\* steps the call was given, doc the document it returned.
Compiled == call.compiled

Indices == 1..Len(config.steps)

ResolvedStart(n) == config.steps[n].timing.start

InputStart(n) == before.steps[n].timing.start

\* End of the resolved step n: resolvedStart + len(command) * perChar + hold.
ResolvedEnd(n) ==
  ResolvedStart(n)
    + Len(config.steps[n].command) * config.steps[n].timing.perChar
    + config.steps[n].timing.hold

\* The call compiled in the loop mode its object was configured with.
PlainMode == Compiled /\ (call.forceLoop => call.loop)

NonNegative(cfg) ==
  \A n \in 1..Len(cfg.steps) :
    /\ cfg.steps[n].timing.start >= 0
    /\ cfg.steps[n].timing.perChar >= 0
    /\ cfg.steps[n].timing.hold >= 0

Larger(a, b) == IF a >= b THEN a ELSE b

\* Every percentage of every keyframe spec of the document.
FramesOf(k) == doc.keyframes[k].frames

----------------------------------------------------------------------------
\* C1.  Overlap Resolver exactness: after buildSVG's step pass the resolved
\* start of every step i > 0 equals the larger of its input start and the
\* previous resolved step's end (resolved start + len(command) * perChar +
\* hold) plus the 0.5 s transition; a step with nominal start 6 s after a
\* step that ends at 7.5 s starts at exactly 8.0 s.
ResolverExact ==
  Compiled =>
    /\ Len(config.steps) = Len(before.steps)
    /\ \A n \in Indices : n > 1 =>
         /\ ResolvedStart(n) = Larger(InputStart(n), ResolvedEnd(n - 1) + 5)
         /\ (InputStart(n) = 60 /\ ResolvedEnd(n - 1) = 75) => ResolvedStart(n) = 80

\* A compile moved a step from 6 s to 8.0 s behind a step that ends at 7.5 s.
ResolverExactWitness ==
  /\ Compiled
  /\ Len(config.steps) >= 2
  /\ InputStart(2) = 60
  /\ ResolvedEnd(1) = 75
  /\ ResolvedStart(2) = 80

\* C2.  The resolver only pushes forward: after a compile the resolved starts
\* are non-decreasing along the sequence, none is less than the start the
\* call was given or the start that was loaded, the first step's start is
\* unchanged, and a start that already meets the required minimum is unchanged.
OnlyPushesForward ==
  Compiled =>
    \A n \in Indices :
      /\ ResolvedStart(n) >= InputStart(n)
      /\ ResolvedStart(n) >= original.steps[n].timing.start
      /\ n = 1 => ResolvedStart(n) = InputStart(n)
      /\ n > 1 => ResolvedStart(n) >= ResolvedStart(n - 1)
      /\ (n > 1 /\ InputStart(n) >= ResolvedEnd(n - 1) + 5)
           => ResolvedStart(n) = InputStart(n)

\* A compile pushed the second step forward behind a first step it left at 2 s.
OnlyPushesForwardWitness ==
  /\ Compiled
  /\ Len(config.steps) >= 2
  /\ ResolvedStart(1) = 20
  /\ InputStart(2) = 0
  /\ ResolvedStart(2) > 20

\* C3.  A compile call never mutates the caller's configuration: every
\* step's timing.start is the same after the call as before it.
CompileLeavesConfig ==
  Compiled => config = before

\* C4.  forceLoop equivalence: buildSVG(config with loop = false, forceLoop =
\* true) returns the document buildSVG(the same config with loop = true)
\* returns.
ForceLoopEquivalent ==
  (Compiled /\ call.forceLoop /\ ~call.loop) =>
    doc = buildSVG([before EXCEPT !.loop = TRUE, !.embed = TRUE], FALSE).doc

\* C5.  The totalDuration of a compile is strictly greater than the end of
\* the last resolved step when not looping, and at least that end plus
\* LAST_STEP_EXTRA_TIME (1.0 s) when looping.
DurationCoversLastStep ==
  PlainMode =>
    IF call.loop
      THEN doc.duration >= ResolvedEnd(Len(config.steps)) + 10
      ELSE doc.duration > ResolvedEnd(Len(config.steps))

RECURSIVE MaxResolvedEnd(_)
\* max over the resolved steps 1 .. n of stepEnd, the last-step extra pause
\* added for the final step when looping.
MaxResolvedEnd(n) ==
  IF n = 0 THEN 0
  ELSE Larger(MaxResolvedEnd(n - 1),
              ResolvedEnd(n)
                + (IF n = Len(config.steps) /\ call.loop THEN 10 ELSE 0))

\* C6.  Stage ordering: the Overlap Resolver runs before the Duration
\* Aggregator, so totalDuration is the maximum over the resolved steps of
\* stepEnd plus one trailing constant chosen by loop mode (0 s looping,
\* 0.5 s not looping).
DurationFromResolvedSteps ==
  PlainMode =>
    doc.duration =
      MaxResolvedEnd(Len(config.steps)) + (IF call.loop THEN 0 ELSE 5)

\* C7.  Every percentage of every keyframe spec of a compile lies in [0, 100].
PercentagesInRange ==
  (Compiled /\ NonNegative(original)) =>
    \A k \in 1..Len(doc.keyframes) :
      \A f \in 1..Len(FramesOf(k)) :
        /\ FramesOf(k)[f].pct >= 0
        /\ FramesOf(k)[f].pct <= 1000000

\* C8.  Within every keyframe spec the percentages are non-decreasing in list
\* order, the first entry at 0 and the last at 100.
KeyframesOrdered ==
  (Compiled /\ NonNegative(original)) =>
    \A k \in 1..Len(doc.keyframes) :
      /\ FramesOf(k)[1].pct = 0
      /\ FramesOf(k)[Len(FramesOf(k))].pct = 1000000
      /\ \A f \in 1..(Len(FramesOf(k)) - 1) :
           FramesOf(k)[f].pct <= FramesOf(k)[f + 1].pct

\* The reveal percentage of a command-character keyframe spec (its third frame).
RevealPct(k) == FramesOf(k)[3].pct

\* C9.  For every step with perChar > 0, no two characters of its command
\* get the same reveal percentage: a compile either returns distinct
\* percentages or is rejected with an error.
RevealsDistinct ==
  (Compiled /\ NonNegative(original)) =>
    \/ outcome = "Error"
    \/ \A k, l \in 1..Len(doc.keyframes) :
         ( /\ doc.keyframes[k].name.kind = "type"
           /\ doc.keyframes[l].name.kind = "type"
           /\ doc.keyframes[k].name.step = doc.keyframes[l].name.step
           /\ doc.keyframes[k].name.char # doc.keyframes[l].name.char
           /\ config.steps[doc.keyframes[k].name.step + 1].timing.perChar > 0 )
         => RevealPct(k) # RevealPct(l)

\* C10.  Fail-fast validation: once main has acted on a configuration with a
\* negative start, perChar or hold, or with no steps, the outcome is an
\* error and no document has been produced.
InvalidRejected ==
  (pc # "loaded" /\ (Len(original.steps) = 0 \/ ~NonNegative(original))) =>
    /\ outcome = "Error"
    /\ doc = NoDoc

----------------------------------------------------------------------------
\* Keyframe specs of the document by name (kind, 0-based step, character).

HasSpec(kind, step, char) ==
  \E k \in 1..Len(doc.keyframes) : doc.keyframes[k].name = Name(kind, step, char)

SpecFrames(kind, step, char) ==
  FramesOf(CHOOSE k \in 1..Len(doc.keyframes) :
             doc.keyframes[k].name = Name(kind, step, char))

\* The number of keyframe specs of one kind the document holds for a step.
SpecCount(kind, step) ==
  Cardinality({ k \in 1..Len(doc.keyframes) :
                  /\ doc.keyframes[k].name.kind = kind
                  /\ doc.keyframes[k].name.step = step })

\* The pause before the fade-out of step n: 1.0 s for the final step of a
\* configuration compiled with loop true, nothing otherwise.
LoopPause(n) == IF n = Len(config.steps) /\ call.loop THEN 10 ELSE 0

\* C11.  Line-group timing: the line group of step i fades in from 0 when
\* i = 0 and from the previous resolved step's end (resolved start +
\* len(command) * perChar + hold) plus the 0.5 s transition when i > 0; it
\* fades out from step i's own end, LAST_STEP_EXTRA_TIME (1.0 s) later for the
\* final step of a configuration whose loop is true.
LineGroupTiming ==
  Compiled =>
    \A n \in Indices :
      HasSpec("fade", n - 1, 0) =>
        /\ SpecFrames("fade", n - 1, 0)[2].pct =
             ToPct(IF n = 1 THEN 0 ELSE ResolvedEnd(n - 1) + 5, doc.duration)
        /\ SpecFrames("fade", n - 1, 0)[4].pct =
             ToPct(ResolvedEnd(n) + LoopPause(n), doc.duration)

\* A looping compile of two steps: the second line group fades in 0.5 s after
\* the first step's end and fades out 1.0 s after its own end.
LineGroupTimingWitness ==
  /\ Compiled
  /\ call.loop
  /\ Len(config.steps) = 2
  /\ HasSpec("fade", 0, 0)
  /\ HasSpec("fade", 1, 0)
  /\ ResolvedEnd(1) = 5
  /\ SpecFrames("fade", 1, 0)[2].pct = ToPct(10, doc.duration)
  /\ SpecFrames("fade", 1, 0)[2].pct > ToPct(5, doc.duration)
  /\ SpecFrames("fade", 1, 0)[4].pct = ToPct(ResolvedEnd(2) + 10, doc.duration)

\* C11 as stated: for i > 0 the fade-in starts at the previous resolved step's
\* end itself.
LineGroupFadesInAtPreviousEnd ==
  Compiled =>
    \A n \in Indices :
      HasSpec("fade", n - 1, 0) =>
        /\ SpecFrames("fade", n - 1, 0)[2].pct =
             ToPct(IF n = 1 THEN 0 ELSE ResolvedEnd(n - 1), doc.duration)
        /\ SpecFrames("fade", n - 1, 0)[4].pct =
             ToPct(ResolvedEnd(n) + LoopPause(n), doc.duration)

\* C12.  For the final step of a non-looping animation the line-group
\* keyframe spec holds no fade-out keyframe: once the lines are visible they
\* stay visible up to 100% of the cycle.
FinalLinesStayVisible ==
  (Compiled /\ ~call.loop /\ ~call.forceLoop
     /\ HasSpec("fade", Len(config.steps) - 1, 0)) =>
    LET f == SpecFrames("fade", Len(config.steps) - 1, 0)
    IN  /\ f[Len(f)].pct = 1000000
        /\ f[Len(f)].opacity = 1
        /\ \A i, j \in 1..Len(f) : (i < j /\ f[i].opacity = 1) => f[j].opacity = 1

\* The command of step n and its typing rate.
CommandOf(n) == config.steps[n].command

PerCharOf(n) == config.steps[n].timing.perChar

\* C13.  Typing synthesis: a step whose command has n characters gets exactly
\* n command-character keyframe specs, and the character at index k is
\* revealed at the resolved start + k * perChar; the command "ls" with perChar
\* 0.2 s and start 2 s gets exactly 2 keyframes, revealed at 2.0 s and 2.2 s.
TypingSynthesis ==
  Compiled =>
    \A n \in Indices :
      /\ SpecCount("type", n - 1) = Len(CommandOf(n))
      /\ \A k \in 0..(Len(CommandOf(n)) - 1) :
           /\ HasSpec("type", n - 1, k)
           /\ SpecFrames("type", n - 1, k)[3].pct =
                ToPct(ResolvedStart(n) + k * PerCharOf(n), doc.duration)
      /\ (CommandOf(n) = "ls" /\ PerCharOf(n) = 2 /\ ResolvedStart(n) = 20) =>
           /\ SpecCount("type", n - 1) = 2
           /\ HasSpec("type", n - 1, 0)
           /\ HasSpec("type", n - 1, 1)
           /\ SpecFrames("type", n - 1, 0)[3].pct = ToPct(20, doc.duration)
           /\ SpecFrames("type", n - 1, 1)[3].pct = ToPct(22, doc.duration)

\* C14.  Whenever the command group of a step is emitted, its fade-out starts
\* at resolved start + len(command) * perChar + hold, 1.0 s later for the
\* final step of a looping configuration, and that is where the line group of
\* the same step starts to fade out.
CommandGroupFadeOut ==
  Compiled =>
    \A n \in Indices :
      HasSpec("fade-cmd", n - 1, 0) =>
        /\ SpecFrames("fade-cmd", n - 1, 0)[2].pct =
             ToPct(ResolvedEnd(n) + LoopPause(n), doc.duration)
        /\ HasSpec("fade", n - 1, 0) =>
             SpecFrames("fade-cmd", n - 1, 0)[2].pct =
               SpecFrames("fade", n - 1, 0)[4].pct

\* A looping compile of two typed steps with output lines and a hold of 5.1 s:
\* both command groups fade out with their line groups, not at 0%.
CommandGroupFadeOutWitness ==
  /\ Compiled
  /\ call.loop
  /\ Len(config.steps) = 2
  /\ \A n \in Indices :
       /\ CommandOf(n) = "ls"
       /\ config.steps[n].timing.hold = 51
       /\ HasSpec("fade-cmd", n - 1, 0)
       /\ HasSpec("fade", n - 1, 0)
       /\ SpecFrames("fade-cmd", n - 1, 0)[2].pct > 0
       /\ SpecFrames("fade-cmd", n - 1, 0)[2].pct =
            SpecFrames("fade", n - 1, 0)[4].pct

\* A step is rendered with its prompt and command unless it is the final step
\* of a configuration compiled with loop false.
Rendered(n) == n < Len(config.steps) \/ call.loop

CommandsNeverOverlap ==
  Compiled =>
    \A n \in Indices :
      (n < Len(config.steps) /\ HasSpec("fade-cmd", n - 1, 0)
         /\ HasSpec("type", n, 0)) =>
        SpecFrames("fade-cmd", n - 1, 0)[3].pct <= SpecFrames("type", n, 0)[3].pct

\* Two typed steps of a looping compile, the second pushed behind the first:
\* the first command is gone before the second one starts to appear.
CommandsNeverOverlapWitness ==
  /\ Compiled
  /\ call.loop
  /\ Len(config.steps) = 2
  /\ HasSpec("fade-cmd", 0, 0)
  /\ HasSpec("type", 1, 0)
  /\ InputStart(2) < ResolvedStart(2)
  /\ SpecFrames("fade-cmd", 0, 0)[3].pct > 0
  /\ SpecFrames("fade-cmd", 0, 0)[3].pct < SpecFrames("type", 1, 0)[3].pct

\* C17.  One cycle for all: every animation rule of a document has the
\* duration totalDuration * 1000 ms and the same iteration count, infinite
\* exactly when forceLoop or config.loop is set and 1 otherwise.
UniformCycle ==
  Compiled =>
    \A r \in 1..Len(doc.rules) :
      doc.rules[r].animation # NoName =>
        /\ doc.rules[r].ms = doc.duration * 100
        /\ doc.rules[r].iteration =
             (IF call.forceLoop \/ call.loop THEN "infinite" ELSE "1")

\* A forced-loop compile of a configuration with loop false that has line,
\* command-group and character rules, and a plain compile of the same kind.
UniformCycleWitness ==
  /\ Compiled
  /\ call.forceLoop
  /\ ~call.loop
  /\ doc.duration > 0
  /\ \A kind \in {"line", "cmd-group", "cmd"} :
       \E r \in 1..Len(doc.rules) :
         /\ doc.rules[r].selector.kind = kind
         /\ doc.rules[r].iteration = "infinite"
         /\ doc.rules[r].ms = doc.duration * 100

\* C18.  Idempotence: a buildSVG call that follows a buildSVG call on the
\* same configuration with the same loop flag and the same forceLoop returns
\* the same totalDuration and the same keyframe percentages.
CompileIdempotent ==
  [][ ( /\ call.compiled
        /\ call'.compiled
        /\ call'.loop = call.loop
        /\ call'.forceLoop = call.forceLoop )
      => ( /\ doc'.duration = doc.duration
           /\ doc'.keyframes = doc.keyframes ) ]_vars

\* The characters of the prompt `user@host[:path]symbol` of the step the
\* Layout Resolver was given, counted part by part.
PromptChars ==
  Len(layoutIn.step.shellPrompt.user) + 1 + Len(layoutIn.step.shellPrompt.host)
    + (IF layoutIn.step.shellPrompt.path \in {<<>>, <<"">>}
         THEN 0 ELSE 1 + Len(layoutIn.step.shellPrompt.path[1]))
    + Len(layoutIn.step.shellPrompt.symbol)

\* The step was given a position with this field in it.
Supplied(field) ==
  /\ layoutIn.step.position # <<>>
  /\ layoutIn.step.position[1][field] # <<>>

\* C19.  Layout: the prompt starts at position.promptX when it is supplied,
\* 0 included, and at 20 otherwise; the prompt is as wide as the characters
\* of user@host[:path]symbol (":path" only for a given path) times
\* charWidth; the command starts at position.commandX when it is supplied
\* and at promptX + promptWidth + 5 otherwise; no timing field changes any
\* of the three.
LayoutResolved ==
  layoutOut.resolved =>
    /\ layoutOut.promptX =
         (IF Supplied("promptX")
            THEN layoutIn.step.position[1].promptX[1] ELSE 20)
    /\ layoutOut.promptWidth = PromptChars * layoutIn.charWidth
    /\ layoutOut.commandX =
         (IF Supplied("commandX")
            THEN layoutIn.step.position[1].commandX[1]
            ELSE layoutOut.promptX + layoutOut.promptWidth + 5)
    /\ \A t \in LayoutTimings :
         LET r == ResolvePositions(layoutIn.charWidth,
                                   [layoutIn.step EXCEPT !.timing = t])
         IN  /\ r.promptX = layoutOut.promptX
             /\ r.promptWidth = layoutOut.promptWidth
             /\ r.commandX = layoutOut.commandX

\* A step pushed to 8 s with promptX 0 and no commandX, prompt
\* user@host:src:~$ (16 characters) at charWidth 11: the prompt starts at 0,
\* is 176 wide, and the command starts at 181.
LayoutResolvedWitness ==
  /\ layoutOut.resolved
  /\ layoutIn.step.timing.start = 80
  /\ Supplied("promptX")
  /\ ~Supplied("commandX")
  /\ layoutIn.step.shellPrompt.path = <<"src">>
  /\ layoutOut.promptX = 0
  /\ layoutOut.promptWidth = 176
  /\ layoutOut.commandX = 181

RECURSIVE MaxEndWith(_, _)
\* max over the resolved steps 1 .. n of stepEnd, `pause` added for the final
\* step.
MaxEndWith(n, pause) ==
  IF n = 0 THEN 0
  ELSE Larger(MaxEndWith(n - 1, pause),
              ResolvedEnd(n) + (IF n = Len(config.steps) THEN pause ELSE 0))

\* renderGif has measured the configuration as loaded with loop false
\* (totalTime) and compiled its looping copy (doc.duration), and the steps
\* were resolved before: the per-step pass of both is the maximum end.
BothModes ==
  /\ call.op = "render-gif"
  /\ Compiled
  /\ ~config.loop
  /\ config = before

\* What computeTotalAnimationTime added after its per-step pass, looping.
LoopTrailing == doc.duration - MaxEndWith(Len(config.steps), 10)

\* The same for the configuration with loop false.
NonLoopTrailing == totalTime - MaxEndWith(Len(config.steps), 0)

\* C20.  The trailing constant the Duration Aggregator adds after its
\* per-step pass is chosen by config.loop and is smaller for a looping
\* configuration (0 s) than for a non-looping one (0.5 s).
TrailingSmallerWhenLooping ==
  /\ (Compiled /\ config = before) =>
       doc.duration - MaxEndWith(Len(config.steps), IF call.loop THEN 10 ELSE 0)
         = (IF call.loop THEN 0 ELSE 5)
  /\ BothModes =>
       /\ LoopTrailing = 0
       /\ NonLoopTrailing = 5
       /\ LoopTrailing < NonLoopTrailing

\* renderGif on a resolved configuration with loop false: 0.5 s were added
\* to its own total and nothing to the total of the looping copy.
TrailingSmallerWhenLoopingWitness ==
  /\ BothModes
  /\ Len(config.steps) = 2
  /\ totalTime = ResolvedEnd(2) + 5
  /\ doc.duration = ResolvedEnd(2) + 10
  /\ ResolvedEnd(2) > ResolvedEnd(1)

\* C20 as stated: the trailing constant is larger for looping output than
\* for non-looping output.
TrailingLargerWhenLooping ==
  BothModes => LoopTrailing > NonLoopTrailing

\* The document holds an element of this kind for the 0-based step.
HasElement(kind, step) ==
  \E e \in 1..Len(doc.content) : doc.content[e].class = Name(kind, step, 0)

\* C21.  Every step produces its visual elements whatever the loop mode and
\* its place in the sequence: a compile emits the prompt of every resolved
\* step, the final step of a non-looping animation included, and for a
\* non-empty command its command group and one keyframe spec per character.
EveryStepRendered ==
  Compiled =>
    \A n \in Indices :
      /\ HasElement("prompt", n - 1)
      /\ CommandOf(n) # "" =>
           /\ HasElement("cmd-group", n - 1)
           /\ HasSpec("fade-cmd", n - 1, 0)
           /\ SpecCount("type", n - 1) = Len(CommandOf(n))

\* C26.  The GIF capture window matches the captured document: once
\* renderGif has run, the totalTime it counts its frames from equals the
\* totalDuration of the document it loads, the temporary forced-loop
\* document of a configuration with loop false included.
CaptureWindowMatches ==
  call.op = "render-gif" => totalTime = doc.duration

\* C22.  applyDefaults applies the documented default of loop: a
\* configuration file without loop is loaded with loop = true, and a loop
\* value the file supplies, true or false, is kept.
LoopDefaultApplied ==
  mainPc # "start" =>
    loaded.loop = (IF configData.loop = <<>> THEN TRUE ELSE configData.loop[1])

\* C23.  Output selection: whatever output types are asked for, once main
\* has finished with embed = true the SVG file has been written, also when
\* "svg" is not among the output types (as for ["gif"] alone).
EmbedForcesSvg ==
  (mainPc = "done" /\ loaded.embed /\ loaded.outputTypes # {}) =>
    "svg" \in files

OctokitDone == octokitPc \in {"returned", "thrown"}

\* At most retries + 1 requests; no request after a successful one; a return
\* is the result of the last request; a throw comes after retries + 1 failed
\* requests and is the error of the last one.
BoundedAttempts ==
  /\ Len(requests) <= retries + 1
  /\ \A k \in 1..(Len(requests) - 1) : requests[k] # "ok"
  /\ (requests # <<>> /\ requests[Len(requests)] = "ok") =>
       /\ octokitPc = "returned"
       /\ settled = [kind |-> "ok", request |-> Len(requests)]
  /\ octokitPc = "returned" => requests[Len(requests)] = "ok"
  /\ octokitPc = "thrown" <=>
       /\ Len(requests) = retries + 1
       /\ \A k \in 1..Len(requests) : requests[k] # "ok"
  /\ octokitPc = "thrown" =>
       settled = [kind |-> requests[Len(requests)], request |-> Len(requests)]

\* C29.  safeOctokit terminates with a bounded number of attempts: with
\* retries = r it issues at most r + 1 requests, returns the first
\* successful result without a further request, rethrows the error of the
\* last request when all r + 1 fail, and always comes to its return or throw.
SafeOctokitTerminates == []BoundedAttempts /\ <>OctokitDone

\* Four failed requests with retries = 3, the last error of another kind
\* than the first: the call threw the last one.
SafeOctokitTerminatesWitness ==
  /\ retries = 3
  /\ octokitPc = "thrown"
  /\ Len(requests) = 4
  /\ requests[1] = "rate limit"
  /\ requests[4] = "other"
  /\ settled = [kind |-> "other", request |-> 4]
  /\ Len(waited) = 3

\* C30.  getStarPowerPicks keeps the list of starred repositories free of
\* duplicates across runs: whenever a scan has completed, after a first
\* full scan, a scan resumed from a saved cursor or a refresh more than a
\* day after a completed scan, allStarredReposList holds every repository
\* the API returns exactly once and totalStarredRepos is their number.
StarListDuplicateFree ==
  scan.pc = "complete" =>
    /\ starFile.totalStarredRepos = starCount
    /\ Len(starFile.allStarredReposList) = starCount
    /\ \A repo \in 1..starCount :
         Cardinality({ k \in 1..Len(starFile.allStarredReposList) :
                         starFile.allStarredReposList[k] = repo }) = 1

\* The first two entries of toJSON().steps are two different steps built
\* through StepBuilders on which .timing() was never called.
TwoDefaultTimedSteps ==
  /\ Len(composerSteps) >= 2
  /\ composerSteps[1] # composerSteps[2]
  /\ \A k \in 1..2 :
       /\ composerSteps[k] \in Builders
       /\ composerLog.set[composerSteps[k]].timing = Undefined

FirstStepStart == timings[stepObjects[composerSteps[1]].timing].start

\* C27.  Steps built through the fluent API are independent of each other
\* and of the module defaults: when the first two steps were finished with
\* .done without .timing(), the overlap pass of buildSVG, which moves the
\* second step's timing.start, changes neither the first step's timing.start
\* nor defaultStep.timing.start.
StepsIndependent ==
  [][(composerPc = "building" /\ composerPc' = "compiled" /\ TwoDefaultTimedSteps) =>
       /\ FirstStepStart' = FirstStepStart
       /\ timings'[DefaultTimingRef].start = timings[DefaultTimingRef].start]_vars

\* The entry of toJSON().steps at place `at` carries what was set on the
\* StepBuilder `b`: the command and the timing given to it, the defaults
\* where none was given.
CarriesOwnValues(at, b) ==
  LET entry == StepValue(stepObjects[composerSteps[at]], timings)
  IN  /\ entry.command = Coalesce(composerLog.set[b].command, defaultStepCommand)
      /\ entry.timing = Coalesce(composerLog.set[b].timing, defaultStepTiming)

\* C28 as stated.  The steps accumulate in call order: toJSON().steps holds
\* exactly one entry per .done access, in the order of the accesses, each
\* carrying the values set on its own StepBuilder (seen once .done has been
\* accessed).
OneEntryPerDone ==
  (composerPc = "building" /\ Len(composerLog.done) > 0) =>
    /\ Len(composerSteps) = Len(composerLog.done)
    /\ \A k \in 1..Len(composerLog.done) :
         k <= Len(composerSteps) =>
           /\ composerSteps[k] = composerLog.done[k]
           /\ CarriesOwnValues(k, composerLog.done[k])

\* C28, amended.  toJSON().steps is the steps the constructor was given in
\* initialConfig followed by exactly one entry per .done access, in the
\* order of the accesses, each carrying the values set on its own
\* StepBuilder.
OneEntryPerDoneAfterInitial ==
  composerPc = "building" =>
    /\ composerSteps = composerLog.initial \o composerLog.done
    /\ \A k \in 1..Len(composerLog.done) :
         CarriesOwnValues(Len(composerLog.initial) + k, composerLog.done[k])

\* Three accesses of .done on two builders behind a step of the initial
\* configuration, one builder with a command and a timing of its own.
OneEntryPerDoneAfterInitialWitness ==
  /\ composerPc = "building"
  /\ Len(composerLog.initial) = 1
  /\ Len(composerLog.done) = 3
  /\ composerLog.done[1] # composerLog.done[2]
  /\ composerLog.set[composerLog.done[1]].command = Given("ls")
  /\ composerLog.set[composerLog.done[1]].timing # Undefined
  /\ composerLog.set[composerLog.done[2]].timing = Undefined

\* The last call fetched commits for a state whose lastFetchTime was not
\* of the day of the call.
FetchedAfterAnotherDay ==
  /\ spectrumCall.kind = "fetched"
  /\ DateString(spectrumCall.input.lastFetchTime) # DateString(spectrum.lastFetchTime)

\* C25.  getSemanticCommitSpectrum accumulates: when the stored
\* lastFetchTime is not today, no category's count in the returned
\* verbSpectrum is lower than in the input state, totalCommits is the input's
\* plus the number of commit messages fetched, and the new lastFetchTime is
\* strictly newer than the input's.
SpectrumAccumulates ==
  FetchedAfterAnotherDay =>
    /\ \A category \in Categories :
         spectrum.verbSpectrum[category] >= spectrumCall.input.verbSpectrum[category]
    /\ spectrum.totalCommits = spectrumCall.input.totalCommits + spectrumCall.fetched
    /\ spectrum.lastFetchTime > spectrumCall.input.lastFetchTime

\* A later day's fetch of two commits on top of counts of an earlier fetch.
SpectrumAccumulatesWitness ==
  /\ FetchedAfterAnotherDay
  /\ spectrumCall.input.totalCommits > 0
  /\ spectrumCall.input.verbSpectrum["bugfixer"] > 0
  /\ spectrumCall.fetched = 2
  /\ spectrum.verbSpectrum["bugfixer"] > spectrumCall.input.verbSpectrum["bugfixer"]
  /\ spectrum.verbSpectrum["other"] > 0

====
